---------------------------- MODULE Spec2Model ----------------------------
(***************************************************************************)
(* A model of new_rag_app.py: the RAGPipeline class (document upload,      *)
(* chunk retrieval, web search, prompt composition, completion and the     *)
(* process_query orchestration) and the Streamlit session that drives it.  *)
(*                                                                         *)
(* Text is modelled by TLA+ strings, byte for byte (TLC evaluates \o, Len  *)
(* and SubSeq on strings).  An Optional[T] value is a sequence of length   *)
(* at most one: << >> is None and <<v>> is the value v.                    *)
(***************************************************************************)
EXTENDS Integers, Sequences, FiniteSets, TLC

VARIABLES
    pipeline,            \* st.session_state.pipeline: None or the RAGPipeline's fields
    api_keys_submitted,  \* st.session_state.api_keys_submitted
    document_uploaded,   \* st.session_state.document_uploaded
    pending,             \* backend: URLs acknowledged but not yet indexed
    indexed,             \* backend: URLs whose chunks retrieval can return
    pc,                  \* position of the script run: "idle" or the blocking call it waits in
    event,               \* the form handler that ran last (or is running)
    query,               \* process_query's query argument
    doc_chunks,          \* process_query's local doc_chunks
    web_results,         \* process_query's local web_results
    system_prompt,       \* process_query's local system_prompt
    result,              \* value returned by the pipeline operation, if it returned
    error,               \* message of the exception the operation raised, if it raised
    calls,               \* network requests issued by the current handler, in order
    replies,             \* the answers to those requests, in order of arrival
    shown,               \* what the handler displayed: st.success / st.error / the answer
    arg,                 \* input of the operation under test (function-level specifications)
    ret,                 \* its outcome
    instances,           \* RAGPipeline objects of concurrent users: the attributes of each
    frames               \* the call frame of the operation running on each of them

vars == <<pipeline, api_keys_submitted, document_uploaded, pending, indexed, pc, event,
          query, doc_chunks, web_results, system_prompt, result, error, calls,
          replies, shown, arg, ret, instances, frames>>

session == <<pipeline, api_keys_submitted, document_uploaded>>
backend == <<pending, indexed>>
locals  == <<query, doc_chunks, web_results, system_prompt>>
probe   == <<arg, ret, instances, frames>>

-----------------------------------------------------------------------------
(* Python values *)

None == << >>
Some(v) == <<v>>

\* Python truthiness of an Optional[str]: None and "" are falsy.
Truthy(opt) == opt # None /\ opt[1] # ""

\* a[:n] for a list or a string
SliceTo(a, n) ==
    IF n >= 0 THEN SubSeq(a, 1, IF n < Len(a) THEN n ELSE Len(a))
    ELSE SubSeq(a, 1, IF Len(a) + n > 0 THEN Len(a) + n ELSE 0)

\* a[n:] for n >= 0
SliceFrom(a, n) == SubSeq(a, n + 1, Len(a))

\* s.find(t, start): 0-based index of the first occurrence at or after start, -1 if none
Find(s, t, start) ==
    LET I == {i \in start..(Len(s) - Len(t)) : SubSeq(s, i + 1, i + Len(t)) = t}
    IN  IF I = {} THEN -1 ELSE CHOOSE i \in I : \A j \in I : i <= j

\* s.rfind(t): 0-based index of the last occurrence, -1 if none
RFind(s, t) ==
    LET I == {i \in 0..(Len(s) - Len(t)) : SubSeq(s, i + 1, i + Len(t)) = t}
    IN  IF I = {} THEN -1 ELSE CHOOSE i \in I : \A j \in I : i >= j

\* t in s
Contains(s, t) == Find(s, t, 0) >= 0

\* sep.join(parts)
RECURSIVE Join(_, _)
Join(sep, parts) ==
    IF parts = << >> THEN ""
    ELSE IF Len(parts) = 1 THEN parts[1]
    ELSE parts[1] \o sep \o Join(sep, Tail(parts))

\* s.split('/')[-1]
LastSegment(s) == SliceFrom(s, RFind(s, "/") + 1)

-----------------------------------------------------------------------------
(* RAGPipeline.create_system_prompt *)

PromptHead ==
    "These are very important instructions: You are \"Ragie AI\", a professional but friendly AI chatbot assisting the user. Your task is to answer the user based on the information provided below. Answer informally, directly, and concisely, including all relevant details. Use Markdown for formatting (e.g., **bold**, *italic*, lists, etc.) and $$ for LaTeX where appropriate. Organize your answer into sections if needed. Do not include raw IDs or sensitive information.\n\nHere is the context available for you:\n"

PromptTail ==
    "\n\nIf the context is missing or insufficient, please indicate that the available information might be incomplete. END SYSTEM INSTRUCTIONS"

\* variant: the chunks joined by single newlines
DocSection_newline_joined(chunks) ==
    "Document Information:\n===\n" \o Join("\n", chunks) \o "\n==="

DocSection(chunks) == "Document Information:\n===\n" \o Join("\n\n", chunks) \o "\n==="

WebSection(results) == "Web Search Results:\n===\n" \o Join("\n\n", results) \o "\n==="

\* variant: the web section is appended whether or not there are results
prompt_parts_unconditional(chunks, results) ==
    (IF chunks # << >> THEN <<"Document Information:\n===\n" \o Join("\n\n", chunks) \o "\n===">>
     ELSE << >>)
        \o <<"Web Search Results:\n===\n" \o Join("\n\n", results) \o "\n===">>

prompt_parts(chunks, results) ==
    (IF chunks # << >> THEN <<DocSection(chunks)>> ELSE << >>)
        \o (IF results # << >> THEN <<WebSection(results)>> ELSE << >>)

create_system_prompt(chunks, results) ==
    PromptHead \o Join("\n\n", prompt_parts(chunks, results)) \o PromptTail

-----------------------------------------------------------------------------
(* Outcomes of a Python call, and HTTP responses *)

Return(v) == [kind |-> "return", value |-> v]
Raise(msg) == [kind |-> "raise", msg |-> msg]

\* requests.Response.ok: raise_for_status does not raise, that is, the status is
\* outside the client-error and server-error ranges 400..599
ok(response) == ~(400 <= response.status_code /\ response.status_code < 600)

\* f"{what}: {response.status_code} {response.reason}"
FailureMessage(what, response) ==
    what \o ": " \o ToString(response.status_code) \o " " \o response.reason

-----------------------------------------------------------------------------
(* RAGPipeline.retrieve_chunks *)

\* the POST of lines 52-69
retrieval_request(p, q, scope) ==
    [to |-> "retrieval", url |-> p.RAGIE_RETRIEVAL_URL,
     authorization |-> "Bearer " \o p.ragie_api_key,
     payload |-> [query |-> q, filters |-> [scope |-> scope]]]

\* variant: the status of the response is not looked at
retrieve_chunks_unchecked(response) ==
    LET scored == IF response.scored_chunks = None THEN << >>
                  ELSE response.scored_chunks[1]
    IN  Return([i \in 1..Len(scored) |-> scored[i].text])

\* lines 71-75; data.get("scored_chunks", []) is the Optional response.scored_chunks
retrieve_chunks(response) ==
    IF ~ok(response) THEN Raise(FailureMessage("Retrieval failed", response))
    ELSE LET scored == IF response.scored_chunks = None THEN << >>
                       ELSE response.scored_chunks[1]
         IN  Return([i \in 1..Len(scored) |-> scored[i].text])

-----------------------------------------------------------------------------
(* RAGPipeline.retrieve_web_results *)

\* variant: "if self.serpapi_api_key is None"
web_search_disabled_if_none(key) == key = None

\* line 81: "if not self.serpapi_api_key: return []"
web_search_disabled(key) == ~Truthy(key)

\* the GET of lines 83-90
web_request(key, q, num_results) ==
    [to |-> "web", url |-> "https://serpapi.com/search.json",
     params |-> [engine |-> "google", q |-> q, api_key |-> key[1], num |-> num_results]]

\* result.get(field, "")
GetOr(field, default) == IF field = None THEN default ELSE field[1]

\* line 99
format_web_result(r) == "**" \o GetOr(r.title, "") \o "**: " \o GetOr(r.snippet, "")

\* variant: a failed search counts as a search without results
web_results_or_empty(response, num_results) ==
    IF ~ok(response) \/ response.organic_results = None THEN Return(<< >>)
    ELSE LET top == SliceTo(response.organic_results[1], num_results)
         IN  Return([i \in 1..Len(top) |-> format_web_result(top[i])])

\* variant: every organic result the backend sent is kept
web_results_untruncated(response, num_results) ==
    IF ~ok(response) THEN Raise(FailureMessage("Web search failed", response))
    ELSE IF response.organic_results = None THEN Return(<< >>)
    ELSE LET all == response.organic_results[1]
         IN  Return([i \in 1..Len(all) |-> format_web_result(all[i])])

\* lines 91-100
web_results_of(response, num_results) ==
    IF ~ok(response) THEN Raise(FailureMessage("Web search failed", response))
    ELSE IF response.organic_results = None THEN Return(<< >>)
    ELSE LET top == SliceTo(response.organic_results[1], num_results)
         IN  Return([i \in 1..Len(top) |-> format_web_result(top[i])])

\* the whole operation against a backend that would answer `response`:
\* its outcome and the requests it issued
retrieve_web_results(key, q, num_results, response) ==
    IF web_search_disabled(key) THEN [out |-> Return(<< >>), requests |-> << >>]
    ELSE [out |-> web_results_of(response, num_results),
          requests |-> <<web_request(key, q, num_results)>>]

\* default of the num_results parameter (line 77)
DefaultNumResults == 3

-----------------------------------------------------------------------------
(* RAGPipeline.generate_response *)

\* variant: the prompt and the query change places
completion_request_swapped(system, q) ==
    [to |-> "completion", model |-> "claude-3-sonnet-20240229", max_tokens |-> 1024,
     system |-> q, messages |-> <<[role |-> "user", content |-> system]>>]

\* the messages.create call of lines 127-137
completion_request(system, q) ==
    [to |-> "completion", model |-> "claude-3-sonnet-20240229", max_tokens |-> 1024,
     system |-> system, messages |-> <<[role |-> "user", content |-> q]>>]

\* line 138, for a message whose content is a list of text segments
generate_response(message) ==
    IF message.content # << >> THEN [type |-> "str", text |-> message.content[1].text]
    ELSE [type |-> "list", items |-> message.content]

-----------------------------------------------------------------------------
(* RAGPipeline.process_query, between its blocking calls *)

\* line 145: the web search is attempted only with a credential
web_search_attempted(p) == Truthy(p.serpapi_api_key)

\* variant: "if doc_chunks is None and web_results is None", which no list satisfies
no_context_is_none(chunks, results) == FALSE

\* line 147
no_context(chunks, results) == chunks = << >> /\ results = << >>

NoInfoAnswer == "No relevant information found for your query."

\* default of the scope parameter (line 140)
DefaultScope == "tutorial"

\* process_query as a whole (lines 144-151), against backends that answer its requests,
\* in the order it issues them, with `answers`: its outcome and the requests it issued.
\* The stages below are the code after each call has returned.

\* line 138 and line 151
pq_completed(requests, answer) ==
    [out |-> IF answer.kind = "raise" THEN answer
             ELSE Return(generate_response(answer.value)),
     requests |-> requests]

\* lines 147-151
pq_composed(q, chunks, results, requests, answers) ==
    IF no_context(chunks, results)
    THEN [out |-> Return([type |-> "str", text |-> NoInfoAnswer]), requests |-> requests]
    ELSE pq_completed(
             Append(requests, completion_request(create_system_prompt(chunks, results), q)),
             answers[Len(requests) + 1])

\* line 145, once retrieve_web_results has returned or raised
pq_searched(q, chunks, web, requests, answers) ==
    IF web.out.kind = "raise" THEN [out |-> web.out, requests |-> requests \o web.requests]
    ELSE pq_composed(q, chunks, web.out.value, requests \o web.requests, answers)

\* line 144, once retrieve_chunks has returned or raised, and line 145
pq_retrieved(self, q, chunks, requests, answers) ==
    IF chunks.kind = "raise" THEN [out |-> chunks, requests |-> requests]
    ELSE IF web_search_attempted(self)
    THEN pq_searched(q, chunks.value,
                     retrieve_web_results(self.serpapi_api_key, q, DefaultNumResults, answers[2]),
                     requests, answers)
    ELSE pq_composed(q, chunks.value, << >>, requests, answers)

process_query(self, q, scope, answers) ==
    pq_retrieved(self, q, retrieve_chunks(answers[1]),
                 <<retrieval_request(self, q, scope)>>, answers)

-----------------------------------------------------------------------------
(* urllib.parse.urlparse, as upload_document uses it (line 27).  The URLs   *)
(* considered are ASCII without control characters or leading spaces, so    *)
(* the library's stripping and normalisation steps leave them unchanged.    *)

LowerLetters == "abcdefghijklmnopqrstuvwxyz"
UpperLetters == "ABCDEFGHIJKLMNOPQRSTUVWXYZ"

\* urllib.parse.scheme_chars
scheme_chars == LowerLetters \o UpperLetters \o "0123456789+-."

\* urllib.parse.uses_params
uses_params == {"", "ftp", "hdl", "prospero", "http", "imap", "https", "shttp", "rtsp",
                "rtsps", "rtspu", "sip", "sips", "mms", "sftp", "tel"}

IsAlpha(c) == Contains(LowerLetters, c) \/ Contains(UpperLetters, c)

LowerChar(c) ==
    LET i == Find(UpperLetters, c, 0)
    IN  IF i >= 0 THEN SubSeq(LowerLetters, i + 1, i + 1) ELSE c

RECURSIVE Lower(_)
Lower(s) == IF s = "" THEN "" ELSE LowerChar(SubSeq(s, 1, 1)) \o Lower(SliceFrom(s, 1))

\* _splitnetloc(url, 2): the index where the network location ends
NetlocEnd(url) ==
    LET D == {Find(url, c, 2) : c \in {"/", "?", "#"}} \ {-1}
    IN  IF D = {} THEN Len(url) ELSE CHOOSE d \in D : \A e \in D : d <= e

\* s.partition('[')[2].partition(']')[0]
BracketedHost(netloc) ==
    LET after == SliceFrom(netloc, Find(netloc, "[", 0) + 1)
        j == Find(after, "]", 0)
    IN  IF j < 0 THEN after ELSE SliceTo(after, j)

\* _check_bracketed_host accepts IPv6 and IPvFuture literals; of the hosts
\* considered here the loopback address is the one it accepts
ValidBracketedHosts == {"::1"}

\* s.split(c, 1)[0] and, when c occurs in s, s.split(c, 1)[1]
Before(s, c) == LET i == Find(s, c, 0) IN IF i >= 0 THEN SliceTo(s, i) ELSE s
After(s, c) == LET i == Find(s, c, 0) IN IF i >= 0 THEN SliceFrom(s, i + 1) ELSE ""

\* urlsplit's test for a scheme: the index of its colon, or -1
SchemeEnd(url) ==
    LET i == Find(url, ":", 0)
    IN  IF /\ i > 0
           /\ IsAlpha(SubSeq(url, 1, 1))
           /\ \A k \in 1..i : Contains(scheme_chars, SubSeq(url, k, k))
        THEN i ELSE -1

\* urlsplit, last step: the fragment and the query are taken off the path
urlsplit_path(scheme, netloc, url, fragment) ==
    Return([scheme |-> scheme, netloc |-> netloc, path |-> Before(url, "?"),
            query |-> After(url, "?"), fragment |-> fragment])

\* urlsplit's checks of a bracketed network location
urlsplit_checked(scheme, netloc, url) ==
    IF Contains(netloc, "[") # Contains(netloc, "]") THEN Raise("Invalid IPv6 URL")
    ELSE IF Contains(netloc, "[") /\ BracketedHost(netloc) \notin ValidBracketedHosts
    THEN Raise("'" \o BracketedHost(netloc) \o "' does not appear to be an IPv4 or IPv6 address")
    ELSE urlsplit_path(scheme, netloc, Before(url, "#"), After(url, "#"))

urlsplit_netloc(scheme, url) ==
    IF SliceTo(url, 2) = "//"
    THEN urlsplit_checked(scheme, SubSeq(url, 3, NetlocEnd(url)), SliceFrom(url, NetlocEnd(url)))
    ELSE urlsplit_path(scheme, "", Before(url, "#"), After(url, "#"))

urlsplit_scheme(url, i) ==
    IF i >= 0 THEN urlsplit_netloc(Lower(SliceTo(url, i)), SliceFrom(url, i + 1))
    ELSE urlsplit_netloc("", url)

\* urlsplit: [kind |-> "raise", msg] or [kind |-> "return", value |-> the five parts]
urlsplit(url) == urlsplit_scheme(url, SchemeEnd(url))

\* _splitparams(url)[0]
splitparams_path(url) ==
    LET i == IF Contains(url, "/") THEN Find(url, ";", RFind(url, "/"))
             ELSE Find(url, ";", 0)
    IN  IF i < 0 THEN url ELSE SliceTo(url, i)

\* urlparse, given urlsplit's outcome: the parameters of the last segment leave the path
urlparse_of(split) ==
    IF split.kind = "raise" THEN split
    ELSE IF split.value.scheme \in uses_params /\ Contains(split.value.path, ";")
    THEN Return([split.value EXCEPT !.path = splitparams_path(split.value.path)])
    ELSE split

urlparse(url) == urlparse_of(urlsplit(url))

-----------------------------------------------------------------------------
(* RAGPipeline.upload_document *)

DefaultName == "document"

\* s or "document"
OrDefault(s) == IF s # "" THEN s ELSE DefaultName

\* .path.split('/')[-1] or "document", given urlparse's outcome
name_of(parsed) ==
    IF parsed.kind = "raise" THEN parsed
    ELSE Return(OrDefault(LastSegment(parsed.value.path)))

\* line 27: urlparse(url).path.split('/')[-1] or "document"
derived_name(url) == name_of(urlparse(url))

\* lines 26-27: the name submitted, for an Optional[str] name argument
name_for(url, name) == IF Truthy(name) THEN Return(name[1]) ELSE derived_name(url)

\* the POST of lines 29-41
upload_request(p, url, name, mode) ==
    [to |-> "upload", url |-> p.RAGIE_UPLOAD_URL,
     authorization |-> "Bearer " \o p.ragie_api_key,
     payload |-> [mode |-> mode, name |-> name, url |-> url]]

\* variant: a failure status of the upload endpoint is not looked at
upload_result_unchecked(response) == Return(response.json)

\* lines 43-46
upload_result(response) ==
    IF ~ok(response) THEN Raise(FailureMessage("Document upload failed", response))
    ELSE Return(response.json)

-----------------------------------------------------------------------------
(* Bounds and the values the environment supplies *)

MaxChunks == 2      \* most scored chunks in one retrieval response
MaxOrganic == 4     \* most organic results in one web-search response

\* all sequences over S of length at most n
SeqUpTo(S, n) == UNION {[1..k -> S] : k \in 0..n}

RagieKeys == {"", "ragie-key"}
AnthropicKeys == {"", "anthropic-key"}
SerpApiKeys == {"", "serp-key"}

ReportUrl == "https://example.com/files/report.pdf"
RootUrl == "https://example.com/"
DocUrls == {ReportUrl, RootUrl}
DocNames == {"", "Notes"}
UploadModes == {"fast", "accurate"}
Queries == {"", "What is photosynthesis?"}

\* the text the backend extracts from a document
ChunkText(u) ==
    IF u = ReportUrl THEN "Photosynthesis converts light into chemical energy."
    ELSE "Chlorophyll absorbs light.\n\nIt reflects green."

OkStatus == [status_code |-> 200, reason |-> "OK"]
FailureStatuses == {[status_code |-> 500, reason |-> "Internal Server Error"],
                    [status_code |-> 429, reason |-> "Too Many Requests"]}

WithFields(status, fields) == status @@ fields

\* what the upload endpoint can answer
UploadResponses(u) ==
    {WithFields(OkStatus, [json |-> [status |-> "partitioning", url |-> u]])}
        \cup {WithFields(f, [json |-> [detail |-> f.reason]]) : f \in FailureStatuses}

\* what the retrieval endpoint can answer: chunks of indexed documents only
RetrievalResponses(docs) ==
    {WithFields(OkStatus, [scored_chunks |-> Some([i \in DOMAIN c |-> [text |-> ChunkText(c[i])]])])
        : c \in SeqUpTo(docs, MaxChunks)}
        \cup {WithFields(OkStatus, [scored_chunks |-> None])}
        \cup {WithFields(f, [scored_chunks |-> None]) : f \in FailureStatuses}

OrganicResults == {[title |-> Some("Photosynthesis"), snippet |-> Some("A process used by plants.")],
                   [title |-> None, snippet |-> None]}

\* what the web-search endpoint can answer; it may ignore the num parameter
WebResponses ==
    {WithFields(OkStatus, [organic_results |-> Some(r)]) : r \in SeqUpTo(OrganicResults, MaxOrganic)}
        \cup {WithFields(OkStatus, [organic_results |-> None])}
        \cup {WithFields(f, [organic_results |-> None]) : f \in FailureStatuses}

\* what constructing the Anthropic client can do: return the client, or raise
AnthropicClients ==
    {Return("Anthropic"),
     Raise("Client.__init__() got an unexpected keyword argument 'proxies'")}

\* what messages.create can do: return a message, or raise
CompletionReplies ==
    {Return([content |-> c]) :
        c \in {<< >>, <<[text |-> "Plants make sugar from light."]>>,
               <<[text |-> "Plants make sugar from light."], [text |-> "(see the document)"]>>}}
        \cup {Raise("Error code: 529 - overloaded_error")}

-----------------------------------------------------------------------------
(* The Streamlit session *)

\* RAGPipeline.__init__
RAGPipeline(ragie_api_key, anthropic_api_key, serpapi_api_key) ==
    [ragie_api_key |-> ragie_api_key,
     anthropic_api_key |-> anthropic_api_key,
     serpapi_api_key |-> serpapi_api_key,
     RAGIE_UPLOAD_URL |-> "https://api.ragie.ai/documents/url",
     RAGIE_RETRIEVAL_URL |-> "https://api.ragie.ai/retrievals"]

\* the locals and outputs of a handler before it runs
FreshRun(ev) ==
    /\ event' = ev
    /\ query' = ""
    /\ doc_chunks' = << >>
    /\ web_results' = << >>
    /\ system_prompt' = ""
    /\ result' = None
    /\ error' = None
    /\ calls' = << >>
    /\ replies' = << >>

\* initialize_session_state on an empty session, and an untouched backend
Init ==
    /\ pipeline = None
    /\ document_uploaded = FALSE
    /\ api_keys_submitted = FALSE
    /\ pending = {}
    /\ indexed = {}
    /\ pc = "idle"
    /\ event = "none"
    /\ query = ""
    /\ doc_chunks = << >>
    /\ web_results = << >>
    /\ system_prompt = ""
    /\ result = None
    /\ error = None
    /\ calls = << >>
    /\ replies = << >>
    /\ shown = None
    /\ arg = None
    /\ ret = None
    /\ instances = << >>
    /\ frames = << >>

\* "Reset All": reset_state, then the rerun's initialize_session_state
ResetAll ==
    /\ pc = "idle"
    /\ pipeline' = None
    /\ document_uploaded' = FALSE
    /\ api_keys_submitted' = FALSE
    /\ FreshRun("reset")
    /\ shown' = None
    /\ UNCHANGED <<backend, pc, probe>>

\* variant: the flag is set before the pipeline is constructed
KeysAccepted_flag_first(ragie_key, anthropic_key, serpapi_key, client) ==
    /\ api_keys_submitted' = TRUE
    /\ IF client.kind = "raise"
       THEN /\ shown' = Some([level |-> "error",
                              text |-> "Error configuring API keys: " \o client.msg])
            /\ UNCHANGED pipeline
       ELSE /\ pipeline' = Some(RAGPipeline(ragie_key, anthropic_key, Some(serpapi_key)))
            /\ shown' = Some([level |-> "success", text |-> "API keys configured successfully!"])

\* lines 214-219: the pipeline is constructed, unless Anthropic(api_key=...) raises
KeysAccepted(ragie_key, anthropic_key, serpapi_key, client) ==
    IF client.kind = "raise"
    THEN /\ shown' = Some([level |-> "error",
                           text |-> "Error configuring API keys: " \o client.msg])
         /\ UNCHANGED <<pipeline, api_keys_submitted>>
    ELSE /\ pipeline' = Some(RAGPipeline(ragie_key, anthropic_key, Some(serpapi_key)))
         /\ api_keys_submitted' = TRUE
         /\ shown' = Some([level |-> "success", text |-> "API keys configured successfully!"])

\* "Submit API Keys" (lines 212-221); client is the outcome of Anthropic(api_key=...)
SubmitApiKeys(ragie_key, anthropic_key, serpapi_key, client) ==
    /\ pc = "idle"
    /\ FreshRun("api_keys")
    /\ IF ragie_key # "" /\ anthropic_key # ""
       THEN KeysAccepted(ragie_key, anthropic_key, serpapi_key, client)
       ELSE /\ shown' = Some([level |-> "error",
                              text |-> "Please provide at least the Ragie and Anthropic API keys."])
            /\ UNCHANGED <<pipeline, api_keys_submitted>>
    /\ UNCHANGED <<document_uploaded, backend, pc, probe>>

\* the handler's except clause: st.error(f"{prefix}: {str(e)}")
Caught(prefix, msg) ==
    /\ error' = Some(msg)
    /\ shown' = Some([level |-> "error", text |-> prefix \o ": " \o msg])
    /\ pc' = "idle"

\* calling a method of st.session_state.pipeline when it is None
NoPipelineMessage(method) == "'NoneType' object has no attribute '" \o method \o "'"

\* upload_document up to its POST (lines 26-41), given the outcome of the name's derivation
BeginUpload(doc_url, name, upload_mode) ==
    IF name.kind = "raise"
    THEN /\ Caught("Error uploading document", name.msg)
         /\ calls' = << >>
    ELSE /\ calls' = <<upload_request(pipeline[1], doc_url, name.value, upload_mode)>>
         /\ error' = None
         /\ shown' = None
         /\ pc' = "upload_document"

\* "Upload Document" (lines 226-251), up to the POST of upload_document
SubmitUpload(doc_url, doc_name, upload_mode) ==
    /\ pc = "idle"
    /\ api_keys_submitted
    /\ event' = "upload"
    /\ query' = ""
    /\ doc_chunks' = << >>
    /\ web_results' = << >>
    /\ system_prompt' = ""
    /\ result' = None
    /\ replies' = << >>
    /\ UNCHANGED <<session, backend, probe>>
    /\ IF doc_url = ""
       THEN /\ shown' = Some([level |-> "error", text |-> "Please provide a document URL."])
            /\ error' = None
            /\ calls' = << >>
            /\ pc' = "idle"
       ELSE IF pipeline = None
       THEN /\ Caught("Error uploading document", NoPipelineMessage("upload_document"))
            /\ calls' = << >>
       ELSE BeginUpload(doc_url,
                        name_for(doc_url, IF doc_name # "" THEN Some(doc_name) ELSE None),
                        upload_mode)

\* the upload endpoint answers (lines 41-46); an acknowledged document awaits indexing
UploadResponds(response) ==
    /\ pc = "upload_document"
    /\ response \in UploadResponses(calls[1].payload.url)
    /\ replies' = Append(replies, response)
    /\ LET out == upload_result(response)
       IN  IF out.kind = "raise"
           THEN /\ Caught("Error uploading document", out.msg)
                /\ UNCHANGED <<backend, result>>
           ELSE /\ pending' = pending \cup {calls[1].payload.url}
                /\ result' = Some(out.value)
                /\ pc' = "sleep"
                /\ UNCHANGED <<indexed, error, shown>>
    /\ UNCHANGED <<session, locals, event, calls, probe>>

\* variant: the handler polls until the backend has indexed what it acknowledged
SleepElapsed_after_indexing ==
    /\ pc = "sleep"
    /\ pending = {}
    /\ document_uploaded' = TRUE
    /\ shown' = Some([level |-> "success", text |-> "Document uploaded and indexed successfully!"])
    /\ pc' = "idle"
    /\ UNCHANGED <<pipeline, api_keys_submitted, backend, locals, event, result, error,
                   calls, replies, probe>>

\* time.sleep(5) returns (lines 245-247)
SleepElapsed ==
    /\ pc = "sleep"
    /\ document_uploaded' = TRUE
    /\ shown' = Some([level |-> "success", text |-> "Document uploaded and indexed successfully!"])
    /\ pc' = "idle"
    /\ UNCHANGED <<pipeline, api_keys_submitted, backend, locals, event, result, error,
                   calls, replies, probe>>

\* the backend finishes indexing a document, in its own time
BackendIndexes(u) ==
    /\ u \in pending
    /\ pending' = pending \ {u}
    /\ indexed' = indexed \cup {u}
    /\ UNCHANGED <<session, pc, event, locals, result, error, calls, replies, shown, probe>>

-----------------------------------------------------------------------------
(* process_query, step by step: each action runs the code between two      *)
(* blocking calls.                                                         *)

\* process_query returns `value` to the handler, which displays it (lines 267-269)
Answered(value) ==
    /\ result' = Some(value)
    /\ shown' = Some([level |-> "response", text |-> value])
    /\ error' = None
    /\ pc' = "idle"

\* lines 147-151, up to the call of messages.create
AfterSearch(chunks, results, issued) ==
    IF no_context(chunks, results)
    THEN /\ Answered([type |-> "str", text |-> NoInfoAnswer])
         /\ system_prompt' = ""
         /\ calls' = issued
    ELSE /\ system_prompt' = create_system_prompt(chunks, results)
         /\ calls' = Append(issued, completion_request(create_system_prompt(chunks, results), query))
         /\ pc' = "generate_response"
         /\ UNCHANGED <<result, error, shown>>

\* "Generate Response" (lines 256-273), up to the POST of retrieve_chunks
SubmitQuery(q) ==
    /\ pc = "idle"
    /\ document_uploaded
    /\ event' = "query"
    /\ doc_chunks' = << >>
    /\ web_results' = << >>
    /\ system_prompt' = ""
    /\ result' = None
    /\ replies' = << >>
    /\ UNCHANGED <<session, backend, probe>>
    /\ IF q = ""
       THEN /\ shown' = Some([level |-> "error", text |-> "Please enter a query."])
            /\ error' = None
            /\ query' = ""
            /\ calls' = << >>
            /\ pc' = "idle"
       ELSE IF pipeline = None
       THEN /\ Caught("Error generating response", NoPipelineMessage("process_query"))
            /\ query' = ""
            /\ calls' = << >>
       ELSE /\ query' = q
            /\ calls' = <<retrieval_request(pipeline[1], q, DefaultScope)>>
            /\ error' = None
            /\ shown' = None
            /\ pc' = "retrieve_chunks"

\* the retrieval endpoint answers (lines 71-75), then lines 145-151
RetrievalResponds(response) ==
    /\ pc = "retrieve_chunks"
    /\ response \in RetrievalResponses(indexed)
    /\ replies' = Append(replies, response)
    /\ LET out == retrieve_chunks(response)
           key == pipeline[1].serpapi_api_key
       IN  IF out.kind = "raise"
           THEN /\ Caught("Error generating response", out.msg)
                /\ UNCHANGED <<doc_chunks, web_results, system_prompt, result, calls>>
           ELSE /\ doc_chunks' = out.value
                /\ IF web_search_attempted(pipeline[1]) /\ ~web_search_disabled(key)
                   THEN /\ calls' = Append(calls, web_request(key, query, DefaultNumResults))
                        /\ pc' = "retrieve_web_results"
                        /\ UNCHANGED <<web_results, system_prompt, result, error, shown>>
                   ELSE /\ web_results' = << >>
                        /\ AfterSearch(out.value, << >>, calls)
    /\ UNCHANGED <<session, backend, event, query, probe>>

\* the web-search endpoint answers (lines 91-100), then lines 147-151
WebResponds(response) ==
    /\ pc = "retrieve_web_results"
    /\ response \in WebResponses
    /\ replies' = Append(replies, response)
    /\ LET out == web_results_of(response, DefaultNumResults)
       IN  IF out.kind = "raise"
           THEN /\ Caught("Error generating response", out.msg)
                /\ UNCHANGED <<web_results, system_prompt, result, calls>>
           ELSE /\ web_results' = out.value
                /\ AfterSearch(doc_chunks, out.value, calls)
    /\ UNCHANGED <<session, backend, event, query, doc_chunks, probe>>

\* messages.create returns or raises (line 138), and process_query returns (line 151)
CompletionResponds(reply) ==
    /\ pc = "generate_response"
    /\ reply \in CompletionReplies
    /\ replies' = Append(replies, reply)
    /\ IF reply.kind = "raise"
       THEN /\ Caught("Error generating response", reply.msg)
            /\ UNCHANGED result
       ELSE Answered(generate_response(reply.value))
    /\ UNCHANGED <<session, backend, event, locals, calls, probe>>

Next ==
    \/ ResetAll
    \/ \E r \in RagieKeys, a \in AnthropicKeys, k \in SerpApiKeys, c \in AnthropicClients :
          SubmitApiKeys(r, a, k, c)
    \/ \E u \in DocUrls \cup {""}, n \in DocNames, m \in UploadModes : SubmitUpload(u, n, m)
    \/ \E response \in UNION {UploadResponses(u) : u \in DocUrls} : UploadResponds(response)
    \/ SleepElapsed
    \/ \E u \in DocUrls : BackendIndexes(u)
    \/ \E q \in Queries : SubmitQuery(q)
    \/ \E response \in RetrievalResponses(DocUrls) : RetrievalResponds(response)
    \/ \E response \in WebResponses : WebResponds(response)
    \/ \E reply \in CompletionReplies : CompletionResponds(reply)

Spec == Init /\ [][Next]_vars

-----------------------------------------------------------------------------
(* Function-level specifications: an operation is called once on an input  *)
(* drawn from a bounded set, with the session idle.  An operation that     *)
(* makes a network call takes two steps: up to the request, where it waits *)
(* (pc = "blocked"), and from the answer to its return.                    *)

MaxResults == 2     \* most web results handed to create_system_prompt directly
MaxLimit == 4       \* largest num_results handed to retrieve_web_results directly
MaxSegments == 2    \* most path segments of an uploaded URL

\* the state in which `operation` is about to be applied to an input from Args
ProbeInit(operation, Args) ==
    /\ pipeline = None
    /\ document_uploaded = FALSE
    /\ api_keys_submitted = FALSE
    /\ pending = {}
    /\ indexed = {}
    /\ pc = "probe"
    /\ event = operation
    /\ query = ""
    /\ doc_chunks = << >>
    /\ web_results = << >>
    /\ system_prompt = ""
    /\ result = None
    /\ error = None
    /\ calls = << >>
    /\ replies = << >>
    /\ shown = None
    /\ arg \in {Some(a) : a \in Args}
    /\ ret = None
    /\ instances = << >>
    /\ frames = << >>

\* the operation returns `outcome`
Applied(operation, outcome) ==
    /\ pc = "probe"
    /\ event = operation
    /\ ret = None
    /\ ret' = Some(outcome)
    /\ UNCHANGED <<session, backend, pc, event, locals, result, error, calls, replies,
                   shown, arg, instances, frames>>

\* the operation issues `request` and waits in the blocking call for its answer
Waits(operation, request) ==
    /\ pc = "probe"
    /\ event = operation
    /\ ret = None
    /\ calls' = <<request>>
    /\ pc' = "blocked"
    /\ UNCHANGED <<session, backend, event, locals, result, error, replies, shown, probe>>

\* the answer `response` arrives and the operation ends with `outcome`
Resumes(operation, response, outcome) ==
    /\ pc = "blocked"
    /\ event = operation
    /\ replies' = <<response>>
    /\ ret' = Some([out |-> outcome, requests |-> calls])
    /\ pc' = "probe"
    /\ UNCHANGED <<session, backend, event, locals, result, error, calls, shown, arg,
                   instances, frames>>

(* create_system_prompt *)

ChunkSamples == {ChunkText(u) : u \in DocUrls} \cup {"", "Results\n===\nNone yet."}
ResultSamples == {format_web_result(r) : r \in OrganicResults}

ComposeArgs == [chunks : SeqUpTo(ChunkSamples, MaxChunks),
                results : SeqUpTo(ResultSamples, MaxResults)]

ComposeInit == ProbeInit("create_system_prompt", ComposeArgs)

Compose == Applied("create_system_prompt", create_system_prompt(arg[1].chunks, arg[1].results))

SpecCompose == ComposeInit /\ [][Compose]_vars

(* retrieve_web_results, called directly and through process_query *)

WebArgs == [key : {None, Some(""), Some("serp-key")},
            q : Queries,
            num_results : 0..MaxLimit,
            response : WebResponses]

WebInit == ProbeInit("retrieve_web_results", WebArgs)

\* lines 81-90: return [] without a credential, else issue the GET and wait
WebSearchCalled ==
    /\ pc = "probe"
    /\ event = "retrieve_web_results"
    /\ IF web_search_disabled(arg[1].key)
       THEN Applied("retrieve_web_results", [out |-> Return(<< >>), requests |-> << >>])
       ELSE Waits("retrieve_web_results",
                  web_request(arg[1].key, arg[1].q, arg[1].num_results))

\* lines 91-100: requests.get returns the backend's answer
WebSearchAnswered ==
    /\ pc = "blocked"
    /\ event = "retrieve_web_results"
    /\ Resumes("retrieve_web_results", arg[1].response,
               web_results_of(arg[1].response, arg[1].num_results))

WebSearch == WebSearchCalled \/ WebSearchAnswered

SpecWeb == (Init \/ WebInit) /\ [][Next \/ WebSearch]_vars

(* upload_document *)

\* how an uploaded URL is written: what precedes the path, the path's segments, what follows
UrlPrefixes == {"https://example.com", "HTTP://[::1]:8000", "http://[bad"}
PathSegments == {"files", "report.pdf", ""}
UrlSuffixes == {"", "?dl=1/2", "#page/3"}

RECURSIVE PathOf(_)
PathOf(segs) == IF segs = << >> THEN "" ELSE "/" \o Head(segs) \o PathOf(Tail(segs))

WrittenUrl(w) == w.prefix \o PathOf(w.segs) \o w.suffix

\* an answer whose status lies above the ranges raise_for_status looks at
BeyondErrorRange == WithFields([status_code |-> 600, reason |-> ""], [json |-> [detail |-> ""]])

UploadArgs ==
    {[written |-> w, url |-> WrittenUrl(w), name |-> n, mode |-> "fast", response |-> r] :
        w \in [prefix : UrlPrefixes, segs : SeqUpTo(PathSegments, MaxSegments),
               suffix : UrlSuffixes],
        n \in {None, Some(""), Some("Notes")},
        r \in UploadResponses("") \cup {BeyondErrorRange}}

UploadInit == ProbeInit("upload_document", UploadArgs)

\* lines 26-41, given the outcome of the name's derivation: raise, or issue the POST and wait
UploadNamed(name) ==
    IF name.kind = "raise"
    THEN Applied("upload_document", [out |-> name, requests |-> << >>])
    ELSE Waits("upload_document",
               upload_request(RAGPipeline("ragie-key", "anthropic-key", None),
                              arg[1].url, name.value, arg[1].mode))

UploadCalled ==
    /\ pc = "probe"
    /\ event = "upload_document"
    /\ UploadNamed(name_for(arg[1].url, arg[1].name))

\* lines 43-46: requests.post returns the backend's answer
UploadAnswered ==
    /\ pc = "blocked"
    /\ event = "upload_document"
    /\ Resumes("upload_document", arg[1].response, upload_result(arg[1].response))

Upload == UploadCalled \/ UploadAnswered

SpecUpload == UploadInit /\ [][Upload]_vars

-----------------------------------------------------------------------------
(* Concurrent users.  Each user holds a RAGPipeline of their own and calls  *)
(* its operations one after another; the calls of different users          *)
(* interleave at the blocking network calls.  An operation reads and       *)
(* writes the attributes of its self and the locals of its own call frame: *)
(* each step below maps (self, frame) to the (self, frame) after it.       *)

MaxInvocations == 2     \* operations each user calls, one after another

Users == {1, 2}

\* the pipelines the users constructed: the first with a web-search credential
Constructed(u) ==
    IF u = 1 THEN RAGPipeline("ragie-key", "anthropic-key", Some("serp-key"))
    ELSE RAGPipeline("ragie-key-2", "anthropic-key-2", None)

\* the answers the backends give in this specification
RetrievalSamples ==
    {WithFields(OkStatus, [scored_chunks |-> Some(<<[text |-> ChunkText(ReportUrl)]>>)]),
     WithFields(OkStatus, [scored_chunks |-> None]),
     WithFields([status_code |-> 500, reason |-> "Internal Server Error"],
                [scored_chunks |-> None])}
WebSamples ==
    {WithFields(OkStatus, [organic_results |->
         Some(<<[title |-> Some("Photosynthesis"), snippet |-> Some("A process used by plants.")]>>)]),
     WithFields(OkStatus, [organic_results |-> None]),
     WithFields([status_code |-> 429, reason |-> "Too Many Requests"],
                [organic_results |-> None])}

\* a user who has called nothing yet
NoFrame ==
    [op |-> "none", round |-> 0, pc |-> "none", query |-> "", doc_chunks |-> << >>,
     web_results |-> << >>, system_prompt |-> "", out |-> None, calls |-> << >>,
     replies |-> << >>]

\* a new call frame: parameters bound, locals unassigned, nothing issued
NewFrame(op, round, q) == [NoFrame EXCEPT !.op = op, !.round = round, !.query = q]

\* the operation ends with `outcome`
Ended(self, f, outcome) ==
    [self |-> self, frame |-> [f EXCEPT !.pc = "done", !.out = Some(outcome)]]

\* the operation issues `request` and blocks in `callee`
Blocked(self, f, callee, request) ==
    [self |-> self, frame |-> [f EXCEPT !.pc = callee, !.calls = Append(f.calls, request)]]

\* process_query is called: line 144, up to the POST of retrieve_chunks
enter_process_query(self, round, q, scope) ==
    Blocked(self, NewFrame("process_query", round, q), "retrieve_chunks",
            retrieval_request(self, q, scope))

\* lines 147-151, up to the call of messages.create
after_search(self, f) ==
    IF no_context(f.doc_chunks, f.web_results)
    THEN Ended(self, f, Return([type |-> "str", text |-> NoInfoAnswer]))
    ELSE Blocked(self,
                 [f EXCEPT !.system_prompt = create_system_prompt(f.doc_chunks, f.web_results)],
                 "generate_response",
                 completion_request(create_system_prompt(f.doc_chunks, f.web_results), f.query))

\* line 145, with the chunks retrieve_chunks returned bound to doc_chunks
after_chunks(self, f) ==
    IF web_search_attempted(self) /\ ~web_search_disabled(self.serpapi_api_key)
    THEN Blocked(self, f, "retrieve_web_results",
                 web_request(self.serpapi_api_key, f.query, DefaultNumResults))
    ELSE after_search(self, [f EXCEPT !.web_results = << >>])

\* retrieve_chunks returns or raises `out`
retrieved(self, f, out) ==
    IF out.kind = "raise" THEN Ended(self, f, out)
    ELSE after_chunks(self, [f EXCEPT !.doc_chunks = out.value])

\* variant: the instance keeps the last retrieval response
after_retrieval_cached(self, f, response) ==
    [retrieved(self, [f EXCEPT !.replies = Append(f.replies, response)],
               retrieve_chunks(response))
        EXCEPT !.self = [last_retrieval |-> response] @@ self]

\* the retrieval endpoint answers (lines 71-75), then lines 145-151
after_retrieval(self, f, response) ==
    retrieved(self, [f EXCEPT !.replies = Append(f.replies, response)],
              retrieve_chunks(response))

\* retrieve_web_results returns or raises `out`
searched(self, f, out) ==
    IF out.kind = "raise" THEN Ended(self, f, out)
    ELSE after_search(self, [f EXCEPT !.web_results = out.value])

\* the web-search endpoint answers (lines 91-100), then lines 147-151
after_web(self, f, response) ==
    searched(self, [f EXCEPT !.replies = Append(f.replies, response)],
             web_results_of(response, DefaultNumResults))

\* messages.create returns or raises (line 138), and process_query returns (line 151)
after_completion(self, f, reply) ==
    Ended(self, [f EXCEPT !.replies = Append(f.replies, reply)],
          IF reply.kind = "raise" THEN reply ELSE Return(generate_response(reply.value)))

\* upload_document is called: lines 26-41, given the outcome of the name's derivation
enter_upload(self, round, url, name, mode) ==
    IF name.kind = "raise" THEN Ended(self, NewFrame("upload_document", round, ""), name)
    ELSE Blocked(self, NewFrame("upload_document", round, ""), "upload_document",
                 upload_request(self, url, name.value, mode))

\* the upload endpoint answers (lines 43-46)
after_upload(self, f, response) ==
    Ended(self, [f EXCEPT !.replies = Append(f.replies, response)], upload_result(response))

\* every user has constructed a pipeline and has called nothing yet
ConcurrentInit ==
    /\ pipeline = None
    /\ document_uploaded = FALSE
    /\ api_keys_submitted = FALSE
    /\ pending = {}
    /\ indexed = {}
    /\ pc = "concurrent"
    /\ event = "none"
    /\ query = ""
    /\ doc_chunks = << >>
    /\ web_results = << >>
    /\ system_prompt = ""
    /\ result = None
    /\ error = None
    /\ calls = << >>
    /\ replies = << >>
    /\ shown = None
    /\ arg = None
    /\ ret = None
    /\ instances = [u \in Users |-> Constructed(u)]
    /\ frames = [u \in Users |-> NoFrame]

\* user u's operation takes the step whose result is `next`
Advance(u, next) ==
    /\ instances' = [instances EXCEPT ![u] = next.self]
    /\ frames' = [frames EXCEPT ![u] = next.frame]
    /\ UNCHANGED <<session, backend, pc, event, locals, result, error, calls, replies,
                   shown, arg, ret>>

\* user u may call an operation: none of theirs is running
MayCall(u) ==
    /\ pc = "concurrent"
    /\ frames[u].pc \in {"none", "done"}
    /\ frames[u].round < MaxInvocations

CallProcessQuery(u, q) ==
    /\ MayCall(u)
    /\ Advance(u, enter_process_query(instances[u], frames[u].round + 1, q, DefaultScope))

CallUpload(u, url, mode) ==
    /\ MayCall(u)
    /\ Advance(u, enter_upload(instances[u], frames[u].round + 1, url,
                               name_for(url, None), mode))

RetrievalAnswers(u, response) ==
    /\ pc = "concurrent"
    /\ frames[u].pc = "retrieve_chunks"
    /\ Advance(u, after_retrieval(instances[u], frames[u], response))

WebAnswers(u, response) ==
    /\ pc = "concurrent"
    /\ frames[u].pc = "retrieve_web_results"
    /\ Advance(u, after_web(instances[u], frames[u], response))

CompletionAnswers(u, reply) ==
    /\ pc = "concurrent"
    /\ frames[u].pc = "generate_response"
    /\ Advance(u, after_completion(instances[u], frames[u], reply))

UploadAnswers(u, response) ==
    /\ pc = "concurrent"
    /\ frames[u].pc = "upload_document"
    /\ Advance(u, after_upload(instances[u], frames[u], response))

ConcurrentNext ==
    \E u \in Users :
        \/ \E q \in Queries \ {""} : CallProcessQuery(u, q)
        \/ CallUpload(u, ReportUrl, "fast")
        \/ \E response \in RetrievalSamples : RetrievalAnswers(u, response)
        \/ \E response \in WebSamples : WebAnswers(u, response)
        \/ \E reply \in CompletionReplies : CompletionAnswers(u, reply)
        \/ \E response \in UploadResponses(ReportUrl) : UploadAnswers(u, response)

SpecConcurrent == ConcurrentInit /\ [][ConcurrentNext]_vars

-----------------------------------------------------------------------------
(* What the properties below observe of a process_query invocation *)

\* a process_query invocation has started (it may have ended since)
InQuery == event = "query" /\ query # "" /\ pipeline # None

\* the backends the invocation has sent requests to, in order
Sent == [i \in 1..Len(calls) |-> calls[i].to]

CallsTo(b) == Cardinality({i \in 1..Len(calls) : calls[i].to = b})

IsPrefix(a, b) == Len(a) <= Len(b) /\ SubSeq(b, 1, Len(a)) = a

\* the configured web-search credential is None or the empty string
NoWebCredential == pipeline[1].serpapi_api_key \in {None, Some("")}

\* the i-th request has been answered, with a status requests takes as ok
Answered200(i) == Len(replies) >= i /\ ok(replies[i])

\* the i-th request has been answered, with an error status
AnsweredError(i) == Len(replies) >= i /\ ~ok(replies[i])

\* the retrieval backend answered with no chunk
RetrievalEmpty ==
    /\ Answered200(1)
    /\ \/ replies[1].scored_chunks = None
       \/ replies[1].scored_chunks[1] = << >>

\* the web search was skipped, or its backend answered with no result
WebEmpty ==
    \/ NoWebCredential
    \/ /\ Answered200(2)
       /\ \/ replies[2].organic_results = None
          \/ replies[2].organic_results[1] = << >>

SentinelAnswer == [type |-> "str", text |-> "No relevant information found for your query."]

\* C1: when retrieval returns no chunk and the web search returns nothing (attempted and
\* empty, or skipped for lack of a credential), process_query has returned the fixed
\* sentinel answer and has sent no request to the completion backend.
C1_SentinelWithoutCompletion ==
    (InQuery /\ RetrievalEmpty /\ WebEmpty)
        => /\ pc = "idle"
           /\ result = Some(SentinelAnswer)
           /\ error = None
           /\ CallsTo("completion") = 0

\* C1 witness: both searches were attempted, both came back empty, the sentinel was returned
C1_Witness ==
    /\ InQuery /\ RetrievalEmpty /\ WebEmpty
    /\ ~NoWebCredential
    /\ Sent = <<"retrieval", "web">>
    /\ result = Some(SentinelAnswer)

\* C2: when the retrieval backend answers with an error status, process_query has failed
\* with a retrieval error carrying that status, has returned nothing, holds no chunk, and
\* has sent no web-search or completion request, with or without a web-search credential.
C2_RetrievalFailureStops ==
    (InQuery /\ AnsweredError(1))
        => /\ pc = "idle"
           /\ result = None
           /\ doc_chunks = << >>
           /\ error # None
           /\ Contains(error[1], "Retrieval failed")
           /\ Contains(error[1], ToString(replies[1].status_code))
           /\ Sent = <<"retrieval">>

\* C2 witness: retrieval answered 500 although a web-search credential is configured
C2_Witness ==
    /\ InQuery /\ AnsweredError(1)
    /\ replies[1].status_code = 500
    /\ ~NoWebCredential
    /\ error # None

\* the web-search operation was called directly, without a credential, and has returned
DirectCallWithoutCredential ==
    /\ event = "retrieve_web_results"
    /\ ret # None
    /\ arg[1].key \in {None, Some("")}

\* C3: without a web-search credential (None or the empty string) the web-search operation,
\* for every query and every limit, sends no request and returns an empty sequence rather
\* than raising; and process_query sends no request to the web-search backend.
C3_NoCredentialNoWebCall ==
    /\ (event = "retrieve_web_results" /\ arg[1].key \in {None, Some("")})
        => /\ pc = "probe"
           /\ calls = << >>
    /\ DirectCallWithoutCredential
        => /\ ret[1].requests = << >>
           /\ ret[1].out.kind = "return"
           /\ ret[1].out.value = << >>
    /\ (InQuery /\ NoWebCredential) => CallsTo("web") = 0

\* C3 witness: called with None as the credential, a limit of 3 and a backend that would
\* have answered with results, the operation has returned
C3_Witness ==
    /\ DirectCallWithoutCredential
    /\ arg[1].key = None
    /\ arg[1].num_results = 3
    /\ arg[1].q # ""
    /\ arg[1].response.organic_results # None
    /\ arg[1].response.organic_results[1] # << >>

\* the backends process_query calls when nothing fails and some context is found
FullSequence ==
    IF NoWebCredential THEN <<"retrieval", "completion">>
    ELSE <<"retrieval", "web", "completion">>

\* the chunks and the web results the invocation's calls returned
ChunksReturned == retrieve_chunks(replies[1]).value
WebReturned ==
    IF NoWebCredential THEN << >>
    ELSE web_results_of(replies[2], DefaultNumResults).value

\* every request of the invocation was answered, none with a failure
NothingFailed ==
    /\ Len(replies) = Len(calls)
    /\ \A i \in 1..Len(replies) :
          IF calls[i].to = "completion" THEN replies[i].kind = "return"
          ELSE ok(replies[i])

\* C4: a process_query invocation calls the backends in the order retrieval, web search
\* (only with a credential), completion, each at most once and one at a time; when it has
\* ended without a failed call and with some chunk or web result, it has made each of these
\* calls exactly once, the completion call received compose(chunks, webResults) of this
\* invocation's results as system content and the caller's query as the user content, and
\* process_query returned what the completion operation extracted from the reply.
C4_SequentialPipeline ==
    InQuery =>
        /\ IsPrefix(Sent, FullSequence)
        /\ Len(calls) - Len(replies) \in {0, 1}
        /\ pc = "idle" <=> Len(calls) = Len(replies)
        /\ calls[1].payload.query = query
        /\ (pc = "idle" /\ NothingFailed /\ ~(ChunksReturned = << >> /\ WebReturned = << >>))
            => /\ Sent = FullSequence
               /\ calls[Len(calls)].system = create_system_prompt(ChunksReturned, WebReturned)
               /\ calls[Len(calls)].messages = <<[role |-> "user", content |-> query]>>
               /\ result = Some(generate_response(replies[Len(replies)].value))
               /\ error = None

\* C4 witness: retrieval, web search and completion all answered, with chunks and web
\* results in the prompt, and the answer was returned
C4_Witness ==
    /\ InQuery
    /\ pc = "idle"
    /\ Sent = <<"retrieval", "web", "completion">>
    /\ NothingFailed
    /\ doc_chunks # << >>
    /\ web_results # << >>
    /\ result # None
    /\ result[1].type = "str"

\* the request to backend b, if one was sent, was answered with a failure
Failed(b) ==
    \E i \in 1..Len(replies) :
        /\ calls[i].to = b
        /\ IF b = "completion" THEN replies[i].kind = "raise"
           ELSE ~ok(replies[i])

\* the message of the failure backend b answered with
FailureOf(b) ==
    LET i == CHOOSE i \in 1..Len(replies) : calls[i].to = b
    IN  IF b = "completion" THEN replies[i].msg
        ELSE "Web search failed: " \o ToString(replies[i].status_code)
                 \o " " \o replies[i].reason

\* C5: a failure of the web-search call or of the completion call reaches the caller of
\* process_query as it was raised: the invocation has ended, has returned no answer (not
\* the sentinel either), and after a web-search failure no completion request was sent; a
\* failed completion is not retried: no backend is sent more than one request.
C5_FailuresPropagate ==
    InQuery =>
        /\ \A b \in {"web", "completion"} :
              Failed(b) => /\ pc = "idle"
                           /\ result = None
                           /\ error = Some(FailureOf(b))
                           /\ Sent[Len(Sent)] = b
        /\ \A b \in {"retrieval", "web", "completion"} : CallsTo(b) <= 1

\* C5 witness: retrieval found nothing, the web search failed, and no answer was returned
C5_Witness ==
    /\ InQuery
    /\ RetrievalEmpty
    /\ Failed("web")
    /\ error # None
    /\ result = None

\* C5, second case reached: the completion call failed after both searches succeeded
C5_CompletionFailureReached ==
    /\ InQuery
    /\ Failed("completion")
    /\ Sent = <<"retrieval", "web", "completion">>

-----------------------------------------------------------------------------
(* Properties of create_system_prompt, under SpecCompose.  The sample      *)
(* chunks and results do not themselves spell a section title: they are    *)
(* embedded verbatim, so a text that did would show in the prompt as one.  *)

Composed == event = "create_system_prompt" /\ ret # None

\* the part of a composed prompt between the fixed opening and the fixed closing text
ContextOf(prompt) == SubSeq(prompt, Len(PromptHead) + 1, Len(prompt) - Len(PromptTail))

DocHeader == "Document Information:\n===\n"
WebHeader == "Web Search Results:\n===\n"
Closing == "\n==="
BlankLine == "\n\n"

\* C6: the composed prompt holds the "Document Information" section exactly when chunks is
\* a non-empty sequence and the "Web Search Results" section exactly when webResults is: a
\* source that yielded nothing leaves no header; compose([], []) is the fixed persona and
\* instruction text alone, with no section title and no "===" marker.
C6_SectionsIffNonEmpty ==
    Composed =>
        LET prompt == ret[1]
            chunks == arg[1].chunks
            results == arg[1].results
        IN  /\ IF chunks # << >> THEN Contains(prompt, DocHeader)
               ELSE ~Contains(prompt, "Document Information")
            /\ IF results # << >> THEN Contains(prompt, WebHeader)
               ELSE ~Contains(prompt, "Web Search Results")
            /\ (chunks = << >> /\ results = << >>)
                => /\ ~Contains(prompt, "===")
                   /\ prompt = PromptHead \o PromptTail

\* C6 witness: composed from chunks alone, web results being empty
C6_Witness ==
    /\ Composed
    /\ arg[1].chunks # << >>
    /\ arg[1].results = << >>

\* C6, the case of no context at all is reached
C6_NoContextComposed == Composed /\ arg[1].chunks = << >> /\ arg[1].results = << >>

\* the length of the first n texts joined by blank lines
RECURSIVE JoinedLen(_, _)
JoinedLen(texts, n) ==
    IF n = 0 THEN 0
    ELSE IF n = 1 THEN Len(texts[1])
    ELSE JoinedLen(texts, n - 1) + Len(BlankLine) + Len(texts[n])

\* body is the texts in their order, each verbatim, with a blank line between neighbours
IsBlankLineJoin(body, texts) ==
    /\ Len(body) = JoinedLen(texts, Len(texts))
    /\ \A i \in 1..Len(texts) :
          LET end == JoinedLen(texts, i)
          IN  /\ SubSeq(body, end - Len(texts[i]) + 1, end) = texts[i]
              /\ i < Len(texts) => SubSeq(body, end + 1, end + Len(BlankLine)) = BlankLine

\* C7: for non-empty chunks the context of the composed prompt opens with the "Document
\* Information" title and delimiter, followed by the chunks in backend order, verbatim,
\* joined by blank lines, followed by the closing delimiter; with web results too, a blank
\* line and the web section follow, otherwise nothing follows.
C7_DocumentSectionVerbatim ==
    (Composed /\ arg[1].chunks # << >>) =>
        LET context == ContextOf(ret[1])
            chunks == arg[1].chunks
            bodyEnd == Len(DocHeader) + JoinedLen(chunks, Len(chunks))
            docEnd == bodyEnd + Len(Closing)
        IN  /\ SubSeq(ret[1], 1, Len(PromptHead)) = PromptHead
            /\ SubSeq(context, 1, Len(DocHeader)) = DocHeader
            /\ IsBlankLineJoin(SubSeq(context, Len(DocHeader) + 1, bodyEnd), chunks)
            /\ SubSeq(context, bodyEnd + 1, docEnd) = Closing
            /\ IF arg[1].results = << >> THEN Len(context) = docEnd
               ELSE SubSeq(context, docEnd + 1, docEnd + Len(BlankLine) + Len(WebHeader))
                        = BlankLine \o WebHeader

\* C7 witness: two different chunks, one of them holding a blank line itself, and web results
C7_Witness ==
    /\ Composed
    /\ Len(arg[1].chunks) = 2
    /\ arg[1].chunks[1] # arg[1].chunks[2]
    /\ Contains(arg[1].chunks[1], BlankLine)
    /\ arg[1].results # << >>

-----------------------------------------------------------------------------
(* Properties of retrieve_web_results, under SpecWeb *)

\* the summary of one organic result: bold title, colon, snippet; a missing field is empty
SummaryOf(r) ==
    "**" \o (IF r.title = None THEN "" ELSE r.title[1]) \o "**: "
         \o (IF r.snippet = None THEN "" ELSE r.snippet[1])

\* summaries are the first `limit` entries of organic, in order
FirstSummaries(summaries, organic, limit) ==
    /\ Len(summaries) = (IF Len(organic) < limit THEN Len(organic) ELSE limit)
    /\ \A i \in 1..Len(summaries) : summaries[i] = SummaryOf(organic[i])

\* the web-search operation was called directly, with a credential, and the backend answered
\* with a list of organic results
DirectCallAnswered ==
    /\ event = "retrieve_web_results"
    /\ ret # None
    /\ arg[1].key \notin {None, Some("")}
    /\ ok(arg[1].response)
    /\ arg[1].response.organic_results # None

\* C8: for every limit (0 and up) and every backend response the web-search operation
\* returns the first `limit` entries of the organic result list, in backend order, even when
\* the backend sent more; a process_query invocation, which uses the default limit, holds
\* the first 3 at most.
C8_AtMostLimitResults ==
    /\ DirectCallAnswered
        => /\ ret[1].out.kind = "return"
           /\ Len(ret[1].out.value) <= arg[1].num_results
           /\ FirstSummaries(ret[1].out.value, arg[1].response.organic_results[1],
                             arg[1].num_results)
    /\ InQuery => Len(web_results) <= 3
    /\ (InQuery /\ ~NoWebCredential /\ Answered200(2) /\ replies[2].organic_results # None)
        => FirstSummaries(web_results, replies[2].organic_results[1], 3)

\* C8 witness: the backend sent more results than the limit asked for
C8_Witness ==
    /\ DirectCallAnswered
    /\ arg[1].num_results = 2
    /\ Len(arg[1].response.organic_results[1]) = 4
    /\ Len(ret[1].out.value) = 2

\* C8, reached through process_query: four organic results, three in the prompt
C8_TruncatedInQuery ==
    /\ InQuery
    /\ ~NoWebCredential
    /\ Answered200(2)
    /\ replies[2].organic_results # None
    /\ Len(replies[2].organic_results[1]) = 4
    /\ Len(web_results) = 3
    /\ pc = "generate_response"

-----------------------------------------------------------------------------
(* Properties of upload_document, under SpecUpload *)

Uploaded == event = "upload_document" /\ ret # None

\* urlparse accepts the URL as written: its network location is not a malformed bracket
Parseable(w) == w.prefix # "http://[bad"

\* the final path segment of the URL as written ("" when the path is empty or ends in "/")
FinalSegment(w) == IF w.segs = << >> THEN "" ELSE w.segs[Len(w.segs)]

\* the name an ingest call is to submit
NameToSubmit(a) ==
    IF a.name \notin {None, Some("")} THEN a.name[1]
    ELSE IF Parseable(a.written) /\ FinalSegment(a.written) # "" THEN FinalSegment(a.written)
    ELSE "document"

\* C9: an ingest call submits the supplied name when there is one; without one it submits
\* the URL's final path segment when that is non-empty, and the default "document" when the
\* final segment is empty or the URL cannot be parsed.
C9_SubmittedName ==
    Uploaded =>
        /\ Len(ret[1].requests) = 1
        /\ ret[1].requests[1].payload.name = NameToSubmit(arg[1])
        /\ ret[1].requests[1].payload.url = arg[1].url

\* C9 restricted to the URLs urlparse accepts, and to supplied names
C9_SubmittedNameWhenParsed ==
    (Uploaded /\ (Parseable(arg[1].written) \/ arg[1].name \notin {None, Some("")}))
        => /\ Len(ret[1].requests) = 1
           /\ ret[1].requests[1].payload.name = NameToSubmit(arg[1])
           /\ ret[1].requests[1].payload.url = arg[1].url

\* C9: an ingest call without a name, of a URL urlparse rejects, raises before any request
C9_UnparseableRaises ==
    (Uploaded /\ ~Parseable(arg[1].written) /\ arg[1].name \in {None, Some("")})
        => /\ ret[1].requests = << >>
           /\ ret[1].out = Raise("Invalid IPv6 URL")

\* C9 reached: report.pdf derived from https://example.com/files/report.pdf
C9_ReportDerived ==
    /\ Uploaded
    /\ arg[1].url = "https://example.com/files/report.pdf"
    /\ arg[1].name = None
    /\ ret[1].requests # << >>
    /\ ret[1].requests[1].payload.name = "report.pdf"

\* C9 reached: an answer of status 600 is ok to requests, and its body is returned
C9_Status600Returned ==
    /\ Uploaded
    /\ arg[1].response.status_code = 600
    /\ ret[1].requests # << >>
    /\ ret[1].out = Return(arg[1].response.json)

\* C9 reached: the default derived from https://example.com/
C9_DefaultDerived ==
    /\ Uploaded
    /\ arg[1].url = "https://example.com/"
    /\ arg[1].name = None
    /\ ret[1].requests # << >>
    /\ ret[1].requests[1].payload.name = "document"

-----------------------------------------------------------------------------
(* The race between ingestion and indexing, under Spec *)

\* C10: ingestion does not wait for indexing: once the upload is acknowledged the fixed
\* delay can elapse, and document_uploaded be set, whatever the backend has indexed; and a
\* query answered from a corpus in which nothing is indexed yet, with web search disabled,
\* gets the sentinel answer.
C10_DelayIsNoGuarantee ==
    /\ pc = "sleep" => /\ ENABLED SleepElapsed
                       /\ calls[1].payload.url \in pending \cup indexed
                       /\ result # None
    /\ (InQuery /\ NoWebCredential /\ indexed = {} /\ Answered200(1))
        => /\ pc = "idle"
           /\ result = Some(SentinelAnswer)

\* C10 witness: the upload was acknowledged, the delay has elapsed and document_uploaded is
\* set, the document is still waiting to be indexed, and a query has been answered with the
\* sentinel
C10_Witness ==
    /\ document_uploaded
    /\ pending # {}
    /\ indexed = {}
    /\ InQuery
    /\ NoWebCredential
    /\ pc = "idle"
    /\ result = Some(SentinelAnswer)

-----------------------------------------------------------------------------
(* Isolation of invocations, under SpecConcurrent *)

\* what user u's process_query invocation does when it runs alone, on the pipeline as u
\* constructed it, against backends that give the answers the invocation received
Alone(u) == process_query(Constructed(u), frames[u].query, DefaultScope, frames[u].replies)

\* user u's invocation of `op` has ended
HasEnded(u, op) == frames[u].op = op /\ frames[u].pc = "done"

\* C11: no pipeline operation changes the credentials or the endpoints of its pipeline: at
\* every point of every interleaving each pipeline is as it was constructed; a new
\* process_query invocation starts with no chunk, web result, prompt or answer of an earlier
\* one; and an invocation that has ended has issued the requests and has the outcome it
\* has when running alone against the same backend answers.
C11_InvocationsIsolated ==
    \A u \in Users :
        /\ instances[u] = Constructed(u)
        /\ DOMAIN instances[u] = {"ragie_api_key", "anthropic_api_key", "serpapi_api_key",
                                  "RAGIE_UPLOAD_URL", "RAGIE_RETRIEVAL_URL"}
        /\ frames[u].pc = "retrieve_chunks"
            => /\ frames[u].doc_chunks = << >>
               /\ frames[u].web_results = << >>
               /\ frames[u].system_prompt = ""
               /\ frames[u].out = None
               /\ frames[u].replies = << >>
               /\ frames[u].calls = <<retrieval_request(Constructed(u), frames[u].query,
                                                        DefaultScope)>>
        /\ HasEnded(u, "process_query")
            => /\ frames[u].out = Some(Alone(u).out)
               /\ frames[u].calls = Alone(u).requests

\* C11 witness: the first user's second invocation has ended with the sentinel answer while
\* the second user's invocation, holding a chunk and its prompt, waits for the completion
C11_Witness ==
    /\ HasEnded(1, "process_query")
    /\ frames[1].round = 2
    /\ frames[1].out = Some(Return(SentinelAnswer))
    /\ frames[2].op = "process_query"
    /\ frames[2].pc = "generate_response"
    /\ frames[2].doc_chunks # << >>
    /\ frames[2].system_prompt # ""

\* C11 reached: both users' invocations have ended, one after an upload of its pipeline,
\* with different answers
C11_BothEnded ==
    /\ HasEnded(1, "process_query")
    /\ HasEnded(2, "process_query")
    /\ frames[2].round = 2
    /\ frames[1].out # frames[2].out
    /\ frames[1].out[1].kind = "return"
    /\ frames[2].out[1].kind = "return"

\* C11 in the Streamlit session: the handlers that call upload_document and process_query
\* leave the session's pipeline as it is
C11_SessionPipelineUntouched ==
    [][event' \in {"upload", "query"} => pipeline' = pipeline]_vars

-----------------------------------------------------------------------------
(* What generate_response returns, under Spec *)

\* the completion call of the invocation has returned a message
CompletionReturned ==
    /\ InQuery
    /\ CallsTo("completion") = 1
    /\ Len(replies) = Len(calls)
    /\ replies[Len(replies)].kind = "return"

\* the content of that message: a list of text segments
ContentReturned == replies[Len(replies)].value.content

\* C12: whenever the completion call succeeds, the completion operation returns answer
\* text, for every shape of the response, a response with an empty list of content
\* segments included; when there is a first segment the text returned is its text.
C12_ReturnsAnswerText ==
    CompletionReturned =>
        /\ pc = "idle"
        /\ error = None
        /\ result # None
        /\ result[1].type = "str"
        /\ ContentReturned # << >> => result[1].text = ContentReturned[1].text

\* C12 restricted to responses with at least one content segment: the text of the first
C12_FirstSegmentWhenPresent ==
    (CompletionReturned /\ ContentReturned # << >>)
        => /\ pc = "idle"
           /\ error = None
           /\ result = Some([type |-> "str", text |-> ContentReturned[1].text])

\* C12: for an empty list of content segments line 138 returns the list itself
C12_EmptyContentReturnsList ==
    (CompletionReturned /\ ContentReturned = << >>)
        => /\ pc = "idle"
           /\ error = None
           /\ result = Some([type |-> "list", items |-> << >>])
           /\ shown = Some([level |-> "response", text |-> [type |-> "list", items |-> << >>]])

\* C12 reached: a response of two segments, the first returned
C12_TwoSegmentsReached ==
    /\ CompletionReturned
    /\ Len(ContentReturned) = 2
    /\ result = Some([type |-> "str", text |-> ContentReturned[1].text])

\* C12 reached: a response without content segments
C12_EmptyContentReached == CompletionReturned /\ ContentReturned = << >>

-----------------------------------------------------------------------------
(* The session's flags, under Spec *)

\* a handler is inside a pipeline operation, or has just come out of one
Dispatched == pc # "idle" \/ calls # << >>

\* an operation was dispatched to a session without a pipeline
DispatchedToNone ==
    error \in {Some(NoPipelineMessage("upload_document")),
               Some(NoPipelineMessage("process_query"))}

\* C13: after any sequence of submit-API-keys, upload-document, submit-query and Reset All,
\* document_uploaded implies api_keys_submitted and api_keys_submitted implies a constructed
\* pipeline in the session; no upload and no query is dispatched to a missing pipeline; and
\* right after Reset All the session is in its initial state: no pipeline, both flags false.
C13_FlagsImplyPipeline ==
    /\ document_uploaded => api_keys_submitted
    /\ api_keys_submitted => pipeline # None
    /\ pipeline # None
        => /\ pipeline[1].ragie_api_key # ""
           /\ pipeline[1].anthropic_api_key # ""
    /\ Dispatched => pipeline # None
    /\ ~DispatchedToNone
    /\ event = "reset"
        => /\ pipeline = None
           /\ ~api_keys_submitted
           /\ ~document_uploaded
           /\ pc = "idle"

\* C13 witness: Reset All in a session whose upload had been acknowledged and indexed
C13_Witness ==
    /\ event = "reset"
    /\ indexed # {}
    /\ pipeline = None
    /\ ~document_uploaded

\* C13 reached: the keys were submitted again after the construction of the client failed
\* in a session that has uploaded a document
C13_ConstructionFailedReached ==
    /\ event = "api_keys"
    /\ shown # None
    /\ shown[1].level = "error"
    /\ Contains(shown[1].text, "Error configuring API keys")
    /\ document_uploaded
    /\ pipeline # None

-----------------------------------------------------------------------------
(* When document_uploaded is set, under Spec *)

\* the step sets document_uploaded
UploadFlagRaised == ~document_uploaded /\ document_uploaded'

\* the step ends the upload handler with an error: a non-success response, or no URL
UploadRefused ==
    /\ event' = "upload"
    /\ pc' = "idle"
    /\ \/ pc = "upload_document" /\ ~ok(replies'[1])
       \/ pc = "idle" /\ shown' = Some([level |-> "error",
                                        text |-> "Please provide a document URL."])

\* C14: document_uploaded goes from false to true only in a step of the upload handler
\* after upload_document returned the backend's acknowledgment; a step in which the upload
\* fails with a non-success response, or is refused for an empty URL, shows an error and
\* leaves pipeline, api_keys_submitted and document_uploaded as they were; the query
\* handler runs only with document_uploaded set, and document_uploaded is set only when
\* the backend has acknowledged some upload.
C14_UploadedOnlyOnAck ==
    [][/\ UploadFlagRaised
           => /\ event = "upload"
              /\ pc = "sleep"
              /\ Len(calls) = 1
              /\ calls[1].to = "upload"
              /\ Len(replies) = 1
              /\ ok(replies[1])
              /\ result = Some(replies[1].json)
              /\ error = None
       /\ UploadRefused
           => /\ pipeline' = pipeline
              /\ api_keys_submitted' = api_keys_submitted
              /\ document_uploaded' = document_uploaded
              /\ result' = None
              /\ shown' # None
              /\ shown'[1].level = "error"
       /\ (pc = "upload_document" /\ pc' = "idle") => ~ok(replies'[1])
       /\ (pc = "idle" /\ event' = "query") => document_uploaded
       /\ document_uploaded' => pending' \cup indexed' # {}
      ]_vars

\* C14 witness: the first upload of a session was answered 500: an error is shown, no
\* document is acknowledged, document_uploaded is still false
C14_Witness ==
    /\ event = "upload"
    /\ pc = "idle"
    /\ replies # << >>
    /\ replies[1].status_code = 500
    /\ error = Some("Document upload failed: 500 Internal Server Error")
    /\ api_keys_submitted
    /\ ~document_uploaded
    /\ pending \cup indexed = {}

\* C14 reached: the upload was acknowledged and document_uploaded has been set
C14_FlagRaisedReached ==
    /\ event = "upload"
    /\ pc = "idle"
    /\ document_uploaded
    /\ replies # << >>
    /\ replies[1].status_code = 200
    /\ result = Some(replies[1].json)

\* C14 reached: an upload without a URL was refused in a session that has uploaded
C14_EmptyUrlReached ==
    /\ event = "upload"
    /\ shown = Some([level |-> "error", text |-> "Please provide a document URL."])
    /\ document_uploaded

=============================================================================
